---- MODULE Spec2Model ----
(***************************************************************************)
(* Model of the auto-merge webhook handler of pure-bot                     *)
(* (pkg/webhook/auto_merge.go).                                            *)
(*                                                                         *)
(* One invocation of autoMerger.HandleEvent is modelled as a sequence of   *)
(* steps, one per blocking forge (GitHub) client call; each step performs  *)
(* the call, draws the forge's answer from a small set, and runs the code  *)
(* of the handler up to its next forge call or its return.                 *)
(*                                                                         *)
(* Go strings that the code lower-cases or compares (event action, states, *)
(* conclusions) are sequences of one-character strings; names that are     *)
(* only compared for identity (labels, contexts, SHAs, branches) are plain *)
(* strings.  A Go *string is a sequence of length 0 (nil) or 1.            *)
(***************************************************************************)
EXTENDS Integers, Sequences, FiniteSets, TLC

VARIABLES
    config,            \* config.Labels.Approved of the repository
    event,             \* the eventObject HandleEvent was called with
    pc,                \* position of the invocation (the forge call it is about to make)
    searchResult,      \* searchResult.Issues of handleStatusEvent
    idx,               \* index of the range loop over searchResult.Issues
    issue,             \* issue argument of mergePR
    pr,                \* pr argument of mergePR
    commitSHA,         \* commitSHA variable of mergePR
    statuses,          \* statuses.Statuses of mergePR
    prChecks,          \* prChecks.CheckRuns of mergePR
    prStatusMap,       \* prStatusMap of mergePR
    requiredContexts,  \* requiredContexts of mergePR
    multiErr,          \* multiErr of handleStatusEvent
    result,            \* the error HandleEvent returned (<<>> is nil)
    calls,             \* the forge client calls made so far, in order
    merged,            \* pull requests the forge has merged
    other              \* the locals of a second invocation while it does not run

vars == <<config, event, pc, searchResult, idx, issue, pr, commitSHA, statuses,
          prChecks, prStatusMap, requiredContexts, multiErr, result, calls, merged,
          other>>

----------------------------------------------------------------------------
(* Bounds of the model *)

\* longest list of issues a search returns
MaxIssues == 2
\* longest list of check runs of a commit
MaxChecks == 1
\* longest list of check runs when one evaluation is checked on its own
MaxRuns == 2

RECURSIVE SeqsUpTo(_, _)
SeqsUpTo(S, n) ==
    IF n = 0 THEN {<<>>}
    ELSE LET shorter == SeqsUpTo(S, n - 1)
         IN  shorter \cup {Append(s, x) : s \in {t \in shorter : Len(t) = n - 1}, x \in S}

----------------------------------------------------------------------------
(* Strings *)

labeledEvent == <<"l", "a", "b", "e", "l", "e", "d">>
statusEventSuccessState == <<"s", "u", "c", "c", "e", "s", "s">>
checkEventSuccessConclusion == <<"s", "u", "c", "c", "e", "s", "s">>
\* declared in another file of package webhook
approvedReviewState == <<"a", "p", "p", "r", "o", "v", "e", "d">>

UpperLetters == <<"A", "B", "C", "D", "E", "F", "G", "H", "I", "J", "K", "L", "M",
                  "N", "O", "P", "Q", "R", "S", "T", "U", "V", "W", "X", "Y", "Z">>
LowerLetters == <<"a", "b", "c", "d", "e", "f", "g", "h", "i", "j", "k", "l", "m",
                  "n", "o", "p", "q", "r", "s", "t", "u", "v", "w", "x", "y", "z">>

ToLowerRune(c) ==
    IF \E i \in 1..Len(UpperLetters) : UpperLetters[i] = c
    THEN LowerLetters[CHOOSE i \in 1..Len(UpperLetters) : UpperLetters[i] = c]
    ELSE c

ToLowerIdentity(s) == s

\* strings.ToLower on the letters A-Z
ToLower(s) == [i \in 1..Len(s) |-> ToLowerRune(s[i])]

----------------------------------------------------------------------------
(* Inputs: events, configurations and answers of the forge *)

ApprovedLabels == {"", "approved"}
LabelSets == {{"wip"}, {"approved", "wip"}}
EventSHAs == {"", "a"}
HeadSHAs == {"a", "b"}
Branches == {"main"}
Names == {"build", "test"}

Triggers == {
    labeledEvent,
    <<"L", "a", "b", "e", "l", "e", "d">>,
    <<"o", "p", "e", "n", "e", "d">>,
    statusEventSuccessState,
    <<"S", "U", "C", "C", "E", "S", "S">>,
    <<"f", "a", "i", "l", "u", "r", "e">>,
    approvedReviewState,
    <<"A", "p", "p", "r", "o", "v", "e", "d">>,
    <<"a", "p", "p", "r", "o", "v", "e">> }

StatusStates == {statusEventSuccessState, <<"f", "a", "i", "l", "u", "r", "e">>}
Conclusions == {<<>>, <<checkEventSuccessConclusion>>, <<<<"f", "a", "i", "l", "u", "r", "e">>>>}

NoPR == [number |-> 0, head |-> "", base |-> ""]
NoIssue == [number |-> 0, labels |-> {}, links |-> FALSE]
NoEvent == [kind |-> "none", trigger |-> <<>>, sha |-> "", pr |-> NoPR]
EmptyMap == [c \in {} |-> TRUE]

\* the locals of an invocation that has not been called yet
NotStarted ==
    [event |-> NoEvent, pc |-> "idle", searchResult |-> <<>>, idx |-> 0,
     issue |-> NoIssue, pr |-> NoPR, commitSHA |-> "", statuses |-> <<>>,
     prChecks |-> <<>>, prStatusMap |-> EmptyMap, requiredContexts |-> <<>>,
     multiErr |-> <<>>, result |-> <<>>, calls |-> <<>>]

PullRequests == [number : {1}, head : HeadSHAs, base : Branches]

\* *github.PullRequestEvent, *github.StatusEvent, *github.PullRequestReviewEvent,
\* and any other event object
Events ==
    [kind : {"pull_request", "pull_request_review"}, trigger : Triggers,
     sha : {""}, pr : PullRequests]
    \cup [kind : {"status"}, trigger : Triggers, sha : EventSHAs, pr : {NoPR}]
    \cup [kind : {"other"}, trigger : {<<>>}, sha : {""}, pr : {NoPR}]

\* answers of Search.Issues: the i-th issue found has number i; an issue that
\* is no pull request carries no PullRequestLinks
FoundIssue(n) ==
    {[number |-> n, labels |-> l, links |-> TRUE] : l \in LabelSets}
    \cup {[number |-> n, labels |-> {}, links |-> FALSE]}

RECURSIVE SearchResultsOf(_)
SearchResultsOf(n) ==
    IF n = 0 THEN {<<>>}
    ELSE {Append(s, i) : s \in SearchResultsOf(n - 1), i \in FoundIssue(n)}

SearchResults == UNION {SearchResultsOf(n) : n \in 0..MaxIssues}

\* answers of GetCombinedStatus: the forge combines the statuses of a commit
\* into one status per context, listed here in the order of ContextOrder
\* (with one status per context the order does not matter to the loop)
ContextOrder == <<"build", "test">>

RECURSIVE StatusListsFrom(_)
StatusListsFrom(i) ==
    IF i > Len(ContextOrder) THEN {<<>>}
    ELSE LET rest == StatusListsFrom(i + 1)
         IN  rest \cup {<<[context |-> ContextOrder[i], state |-> st]>> \o r :
                            st \in StatusStates, r \in rest}

StatusLists == StatusListsFrom(1)

\* answers of ListCheckRunsForRef: several check runs may carry one name
CheckRunLists == SeqsUpTo([name : Names, conclusion : Conclusions], MaxChecks)

\* answers of ListRequiredStatusChecksContexts: each context is listed once
ContextLists ==
    UNION {{s \in [1..n -> Names] : \A i, j \in 1..n : i # j => s[i] # s[j]} :
           n \in 0..Cardinality(Names)}

----------------------------------------------------------------------------
(* Pure parts of the handler *)

StatusNotFound == 404

\* answers of the forge to ListRequiredStatusChecksContexts that are errors:
\* a *github.ErrorResponse with its HTTP status code, or an error of another type
LookupErrors == {[errorResponse |-> TRUE, code |-> StatusNotFound],
                 [errorResponse |-> TRUE, code |-> 403],
                 [errorResponse |-> FALSE, code |-> 0]}

Err(op, num, msg) == [op |-> op, num |-> num, msg |-> msg]
Call(op, num, arg, out) == [op |-> op, num |-> num, arg |-> arg, out |-> out]

DisabledNever(approvedLabel) == FALSE

\* HandleEvent: auto-merge is switched off for the repository
Disabled(approvedLabel) == approvedLabel = ""

PassesGateUnhandled(ev) ==
    CASE ev.kind = "pull_request" -> ToLower(ev.trigger) = labeledEvent
      [] ev.kind = "status" -> ToLower(ev.trigger) = statusEventSuccessState
      [] ev.kind = "pull_request_review" -> ToLower(ev.trigger) = approvedReviewState
      [] OTHER -> TRUE

\* the action/state test of the three event handlers
PassesGate(ev) ==
    CASE ev.kind = "pull_request" -> ToLower(ev.trigger) = labeledEvent
      [] ev.kind = "status" -> ToLower(ev.trigger) = statusEventSuccessState
      [] ev.kind = "pull_request_review" -> ToLower(ev.trigger) = approvedReviewState
      [] OTHER -> FALSE

\* declared in another file of package webhook
containsLabel(labels, label) == label \in labels

StaleCommitNever(sha, p) == FALSE

\* mergePR: the event's commit is not the head of the pull request
StaleCommit(sha, p) == sha # "" /\ p.head # sha

Put(m, k, v) == [c \in (DOMAIN m) \cup {k} |-> IF c = k THEN v ELSE m[c]]

RECURSIVE AddStatuses(_, _, _)
AddStatuses(m, sts, i) ==
    IF i > Len(sts) THEN m
    ELSE AddStatuses(Put(m, sts[i].context, sts[i].state = statusEventSuccessState),
                     sts, i + 1)

CheckSucceeded(check) ==
    Len(check.conclusion) # 0 /\ check.conclusion[1] = checkEventSuccessConclusion

RECURSIVE AddChecksKeepLegacy(_, _, _)
AddChecksKeepLegacy(m, chs, i) ==
    IF i > Len(chs) THEN m
    ELSE AddChecksKeepLegacy(
             IF chs[i].name \in DOMAIN m THEN m
             ELSE Put(m, chs[i].name, CheckSucceeded(chs[i])),
             chs, i + 1)

RECURSIVE AddChecks(_, _, _)
AddChecks(m, chs, i) ==
    IF i > Len(chs) THEN m
    ELSE AddChecks(Put(m, chs[i].name, CheckSucceeded(chs[i])), chs, i + 1)

\* the lookup of the required contexts failed, and not with "not found"
LookupFailedAlways(err) == TRUE

LookupFailedNever(err) == FALSE

LookupFailed(err) == ~err.errorResponse \/ err.code # StatusNotFound

\* range over prStatusMap (in any order), returning at the first failure
RECURSIVE AllKnownSucceed(_, _)
AllKnownSucceed(m, keys) ==
    IF keys = {} THEN TRUE
    ELSE LET k == CHOOSE c \in keys : TRUE
         IN  IF ~m[k] THEN FALSE ELSE AllKnownSucceed(m, keys \ {k})

\* range over requiredContexts, returning at the first one absent or failed
RECURSIVE AllRequiredSucceed(_, _, _)
AllRequiredSucceed(m, required, i) ==
    IF i > Len(required) THEN TRUE
    ELSE IF required[i] \notin DOMAIN m \/ ~m[required[i]] THEN FALSE
    ELSE AllRequiredSucceed(m, required, i + 1)

EligibleKnownOnly(m, required) == AllKnownSucceed(m, DOMAIN m)

EligibleUnprotectedAlways(m, required) ==
    IF Len(required) = 0 THEN TRUE ELSE AllRequiredSucceed(m, required, 1)

EligibleAbsentPasses(m, required) ==
    IF Len(required) = 0 THEN AllKnownSucceed(m, DOMAIN m)
    ELSE \A i \in 1..Len(required) : required[i] \in DOMAIN m => m[required[i]]

\* mergePR: the two branches that decide whether the merge call is reached
Eligible(m, required) ==
    IF Len(required) = 0 THEN AllKnownSucceed(m, DOMAIN m)
    ELSE AllRequiredSucceed(m, required, 1)

PinnedSHAOfEvent(sha, p) == sha

\* mergePR: commitSHA = pr.Head.GetSHA()
PinnedSHA(sha, p) == p.head

CombineOverwrite(me, err) == IF err = <<>> THEN me ELSE err

\* multierr.Combine: the errors of both, nil dropped
Combine(me, err) == me \o err

NextLinkedOrNot(sr, i) == i

\* index of the first issue at or after i that has PullRequestLinks
RECURSIVE NextLinked(_, _)
NextLinked(sr, i) ==
    IF i > Len(sr) THEN i
    ELSE IF ~sr[i].links THEN NextLinked(sr, i + 1)
    ELSE i

----------------------------------------------------------------------------
(* Steps of one invocation *)

Init ==
    /\ config = ""
    /\ event = NoEvent
    /\ pc = "idle"
    /\ searchResult = <<>>
    /\ idx = 0
    /\ issue = NoIssue
    /\ pr = NoPR
    /\ commitSHA = ""
    /\ statuses = <<>>
    /\ prChecks = <<>>
    /\ prStatusMap = EmptyMap
    /\ requiredContexts = <<>>
    /\ multiErr = <<>>
    /\ result = <<>>
    /\ calls = <<>>
    /\ merged = {}
    /\ other = NotStarted

\* the locals of mergePR go out of scope
ClearMergePR ==
    /\ pr' = NoPR
    /\ commitSHA' = ""
    /\ statuses' = <<>>
    /\ prChecks' = <<>>
    /\ prStatusMap' = EmptyMap
    /\ requiredContexts' = <<>>

\* HandleEvent returns err
Finish(err) ==
    /\ pc' = "done"
    /\ result' = err

\* the range loop of handleStatusEvent from index i on, up to its next forge
\* call or the return of multiErr
ForLoop(sr, i, me) ==
    LET j == NextLinked(sr, i)
    IN  /\ idx' = j
        /\ multiErr' = me
        /\ IF j > Len(sr)
           THEN /\ issue' = NoIssue
                /\ Finish(me)
           ELSE /\ issue' = sr[j]
                /\ pc' = "PullRequests.Get"
                /\ result' = result

ReturnFromMergePRDropsError(err) ==
    /\ ClearMergePR
    /\ IF event.kind = "status"
       THEN ForLoop(searchResult, idx + 1, multiErr)
       ELSE /\ issue' = NoIssue
            /\ Finish(<<>>)
            /\ UNCHANGED <<idx, multiErr>>

\* mergePR returns err to its caller
ReturnFromMergePR(err) ==
    /\ ClearMergePR
    /\ IF event.kind = "status"
       THEN ForLoop(searchResult, idx + 1, Combine(multiErr, err))
       ELSE /\ issue' = NoIssue
            /\ Finish(err)
            /\ UNCHANGED <<idx, multiErr>>

\* mergePR up to its first forge call
EnterMergePR(iss, p, sha) ==
    IF ~containsLabel(iss.labels, config) \/ StaleCommit(sha, p)
    THEN ReturnFromMergePR(<<>>)
    ELSE /\ issue' = iss
         /\ pr' = p
         /\ commitSHA' = PinnedSHA(sha, p)
         /\ pc' = "GetCombinedStatus"
         /\ UNCHANGED <<statuses, prChecks, prStatusMap, requiredContexts,
                        idx, multiErr, result>>

HandleEvent ==
    /\ pc = "idle"
    /\ \E ev \in Events, approvedLabel \in ApprovedLabels :
        /\ event' = ev
        /\ config' = approvedLabel
        /\ IF Disabled(approvedLabel) \/ ~PassesGate(ev)
           THEN Finish(<<>>)
           ELSE /\ pc' = IF ev.kind = "status" THEN "Search.Issues" ELSE "Issues.Get"
                /\ result' = result
    /\ UNCHANGED <<searchResult, idx, issue, pr, commitSHA, statuses, prChecks,
                   prStatusMap, requiredContexts, multiErr, calls, merged, other>>

IssuesGet ==
    /\ pc = "Issues.Get"
    /\ \/ /\ calls' = Append(calls, Call("Issues.Get", event.pr.number, "", "error"))
          /\ Finish(<<Err("Issues.Get", event.pr.number, "failed to get pull request")>>)
          /\ UNCHANGED <<idx, issue, pr, commitSHA, statuses, prChecks, prStatusMap,
                         requiredContexts, multiErr>>
       \/ /\ calls' = Append(calls, Call("Issues.Get", event.pr.number, "", "ok"))
          /\ \E l \in LabelSets :
                EnterMergePR([number |-> event.pr.number, labels |-> l, links |-> TRUE],
                             event.pr, "")
    /\ UNCHANGED <<config, event, other, searchResult, merged>>

SearchIssuesGoesOn ==
    /\ pc = "Search.Issues"
    /\ \/ /\ calls' = Append(calls, Call("Search.Issues", 0, event.sha, "error"))
          /\ \E sr \in SearchResults :
                /\ searchResult' = sr
                /\ ForLoop(sr, 1, <<Err("Search.Issues", 0, "failed to search for open issues")>>)
       \/ /\ calls' = Append(calls, Call("Search.Issues", 0, event.sha, "ok"))
          /\ \E sr \in SearchResults :
                /\ searchResult' = sr
                /\ ForLoop(sr, 1, <<>>)
    /\ UNCHANGED <<config, event, other, pr, commitSHA, statuses, prChecks, prStatusMap,
                   requiredContexts, merged>>

SearchIssues ==
    /\ pc = "Search.Issues"
    /\ \/ /\ calls' = Append(calls, Call("Search.Issues", 0, event.sha, "error"))
          /\ Finish(<<Err("Search.Issues", 0, "failed to search for open issues")>>)
          /\ UNCHANGED <<searchResult, idx, issue, multiErr>>
       \/ /\ calls' = Append(calls, Call("Search.Issues", 0, event.sha, "ok"))
          /\ \E sr \in SearchResults :
                /\ searchResult' = sr
                /\ ForLoop(sr, 1, <<>>)
    /\ UNCHANGED <<config, event, other, pr, commitSHA, statuses, prChecks, prStatusMap,
                   requiredContexts, merged>>

PullRequestsGet ==
    /\ pc = "PullRequests.Get"
    /\ \/ /\ calls' = Append(calls, Call("PullRequests.Get", issue.number, "", "error"))
          /\ ClearMergePR
          /\ ForLoop(searchResult, idx + 1,
                     Combine(multiErr, <<Err("PullRequests.Get", issue.number, "")>>))
       \/ /\ calls' = Append(calls, Call("PullRequests.Get", issue.number, "", "ok"))
          /\ \E p \in [number : {issue.number}, head : HeadSHAs, base : Branches] :
                EnterMergePR(issue, p, event.sha)
    /\ UNCHANGED <<config, event, other, searchResult, merged>>

GetCombinedStatus ==
    /\ pc = "GetCombinedStatus"
    /\ \/ /\ calls' = Append(calls, Call("GetCombinedStatus", issue.number, commitSHA, "error"))
          /\ ReturnFromMergePR(<<Err("GetCombinedStatus", issue.number,
                                     "failed to get statuses of pull request")>>)
       \/ /\ calls' = Append(calls, Call("GetCombinedStatus", issue.number, commitSHA, "ok"))
          /\ \E sts \in StatusLists :
                /\ statuses' = sts
                /\ prStatusMap' = AddStatuses(EmptyMap, sts, 1)
          /\ pc' = "ListCheckRunsForRef"
          /\ UNCHANGED <<idx, issue, pr, commitSHA, prChecks, requiredContexts,
                         multiErr, result>>
    /\ UNCHANGED <<config, event, other, searchResult, merged>>

ListCheckRunsForRef ==
    /\ pc = "ListCheckRunsForRef"
    /\ \/ /\ calls' = Append(calls, Call("ListCheckRunsForRef", issue.number, commitSHA, "error"))
          /\ ReturnFromMergePR(<<Err("ListCheckRunsForRef", issue.number,
                                     "failed to retrieve all check for pull request")>>)
       \/ /\ calls' = Append(calls, Call("ListCheckRunsForRef", issue.number, commitSHA, "ok"))
          /\ \E chs \in CheckRunLists :
                /\ prChecks' = chs
                /\ prStatusMap' = AddChecks(prStatusMap, chs, 1)
          /\ pc' = "ListRequiredStatusChecksContexts"
          /\ UNCHANGED <<idx, issue, pr, commitSHA, statuses, requiredContexts,
                         multiErr, result>>
    /\ UNCHANGED <<config, event, other, searchResult, merged>>

\* mergePR takes the answer of the required-contexts lookup as its list of
\* required contexts; the two fetched lists are not read again after the
\* loops that filled prStatusMap, and the model forgets them here
Resolve(required) ==
    /\ requiredContexts' = required
    /\ pc' = "decide"
    /\ statuses' = <<>>
    /\ prChecks' = <<>>
    /\ UNCHANGED <<idx, issue, pr, commitSHA, prStatusMap, multiErr, result>>

\* what the forge answered: "not found" is a *github.ErrorResponse with status 404
Outcome(err) ==
    IF err.errorResponse /\ err.code = StatusNotFound THEN "notfound" ELSE "error"

ListRequiredStatusChecksContexts ==
    /\ pc = "ListRequiredStatusChecksContexts"
    /\ \/ \E err \in LookupErrors :
            /\ calls' = Append(calls, Call("ListRequiredStatusChecksContexts",
                                           issue.number, pr.base, Outcome(err)))
            /\ IF LookupFailed(err)
               THEN ReturnFromMergePR(<<Err("ListRequiredStatusChecksContexts", issue.number,
                                          "failed to get target branch protection for pull request")>>)
               ELSE Resolve(<<>>)
       \/ /\ calls' = Append(calls, Call("ListRequiredStatusChecksContexts",
                                         issue.number, pr.base, "ok"))
          /\ \E required \in ContextLists : Resolve(required)
    /\ UNCHANGED <<config, event, other, searchResult, merged>>

DecideReportsSkip ==
    /\ pc = "decide"
    /\ IF Eligible(prStatusMap, requiredContexts)
       THEN /\ pc' = "Merge"
            /\ UNCHANGED <<idx, issue, pr, commitSHA, statuses, prChecks, prStatusMap,
                           requiredContexts, multiErr, result>>
       ELSE ReturnFromMergePR(<<Err("decide", issue.number, "not all checks of pull request passed")>>)
    /\ UNCHANGED <<config, event, other, searchResult, calls, merged>>

\* mergePR from the test of the required contexts up to the merge call
Decide ==
    /\ pc = "decide"
    /\ IF Eligible(prStatusMap, requiredContexts)
       THEN /\ pc' = "Merge"
            /\ UNCHANGED <<idx, issue, pr, commitSHA, statuses, prChecks, prStatusMap,
                           requiredContexts, multiErr, result>>
       ELSE ReturnFromMergePR(<<>>)
    /\ UNCHANGED <<config, event, other, searchResult, calls, merged>>

MergeUnlessMerged ==
    /\ pc = "Merge"
    /\ issue.number \notin merged
    /\ \/ /\ calls' = Append(calls, Call("Merge", issue.number, commitSHA, "error"))
          /\ merged' = merged
          /\ ReturnFromMergePR(<<Err("Merge", issue.number, "failed to merge pull request")>>)
       \/ /\ calls' = Append(calls, Call("Merge", issue.number, commitSHA, "ok"))
          /\ merged' = merged \cup {issue.number}
          /\ ReturnFromMergePR(<<>>)
    /\ UNCHANGED <<config, event, other, searchResult>>

MergeFailureEndsLoop ==
    /\ pc = "Merge"
    /\ \/ /\ calls' = Append(calls, Call("Merge", issue.number, commitSHA, "error"))
          /\ merged' = merged
          /\ ClearMergePR
          /\ issue' = NoIssue
          /\ Finish(Combine(multiErr, <<Err("Merge", issue.number,
                                            "failed to merge pull request")>>))
          /\ UNCHANGED <<idx, multiErr>>
       \/ /\ calls' = Append(calls, Call("Merge", issue.number, commitSHA, "ok"))
          /\ merged' = merged \cup {issue.number}
          /\ ReturnFromMergePR(<<>>)
    /\ UNCHANGED <<config, event, other, searchResult>>

Merge ==
    /\ pc = "Merge"
    /\ \/ /\ calls' = Append(calls, Call("Merge", issue.number, commitSHA, "error"))
          /\ merged' = merged
          /\ ReturnFromMergePR(<<Err("Merge", issue.number, "failed to merge pull request")>>)
       \/ /\ calls' = Append(calls, Call("Merge", issue.number, commitSHA, "ok"))
          /\ merged' = merged \cup {issue.number}
          /\ ReturnFromMergePR(<<>>)
    /\ UNCHANGED <<config, event, other, searchResult>>

Next ==
    \/ HandleEvent
    \/ IssuesGet
    \/ SearchIssues
    \/ PullRequestsGet
    \/ GetCombinedStatus
    \/ ListCheckRunsForRef
    \/ ListRequiredStatusChecksContexts
    \/ Decide
    \/ Merge

Spec == Init /\ [][Next]_vars

----------------------------------------------------------------------------
(* The evaluation of one pull request by mergePR, on its own: the three  *)
(* answers of the forge are drawn at the start (with check-run lists up  *)
(* to MaxRuns long), then the status map is filled and the required      *)
(* contexts are tested.                                                  *)

CheckRunListsUpTo(n) == SeqsUpTo([name : Names, conclusion : Conclusions], n)

InitEval ==
    /\ config = "approved"
    /\ event = [kind |-> "pull_request", trigger |-> labeledEvent, sha |-> "",
                pr |-> [number |-> 1, head |-> "a", base |-> "main"]]
    /\ pc = "aggregate"
    /\ searchResult = <<>>
    /\ idx = 0
    /\ issue = [number |-> 1, labels |-> {"approved", "wip"}, links |-> TRUE]
    /\ pr = event.pr
    /\ commitSHA = PinnedSHA("", event.pr)
    /\ statuses \in StatusLists
    /\ prChecks \in CheckRunListsUpTo(MaxRuns)
    /\ prStatusMap = EmptyMap
    /\ requiredContexts \in ContextLists
    /\ multiErr = <<>>
    /\ result = <<>>
    /\ calls = <<Call("Issues.Get", 1, "", "ok"),
                 Call("GetCombinedStatus", 1, commitSHA, "ok"),
                 Call("ListCheckRunsForRef", 1, commitSHA, "ok"),
                 Call("ListRequiredStatusChecksContexts", 1, pr.base, "ok")>>
    /\ merged = {}
    /\ other = NotStarted

\* the two loops that fill prStatusMap
Aggregate ==
    /\ pc = "aggregate"
    /\ prStatusMap' = AddChecks(AddStatuses(EmptyMap, statuses, 1), prChecks, 1)
    /\ pc' = "evaluate"
    /\ UNCHANGED <<config, event, other, searchResult, idx, issue, pr, commitSHA, statuses,
                   prChecks, requiredContexts, multiErr, result, calls, merged>>

\* the test of the required contexts: on to the merge call, or return nil
Evaluate ==
    /\ pc = "evaluate"
    /\ pc' = IF Eligible(prStatusMap, requiredContexts) THEN "Merge" ELSE "return"
    /\ UNCHANGED <<config, event, other, searchResult, idx, issue, pr, commitSHA, statuses,
                   prChecks, prStatusMap, requiredContexts, multiErr, result, calls,
                   merged>>

NextEval ==
    \/ Aggregate
    \/ Evaluate

SpecEval == InitEval /\ [][NextEval]_vars

----------------------------------------------------------------------------
(* Two invocations of HandleEvent for one pull request of one            *)
(* repository, as the webhook server runs them for two events that       *)
(* arrive together.  The invocations share no variable of the program:   *)
(* each has its own locals, and they meet only at the forge.  The        *)
(* running invocation uses the variables of the module; the locals of    *)
(* the other one rest in the variable other.  The merge call is the one  *)
(* call that changes the forge, so the invocations are interleaved at    *)
(* it: the running invocation yields when it is about to call merge, or  *)
(* has returned while the other waits at its merge call.                 *)

Locals ==
    [event |-> event, pc |-> pc, searchResult |-> searchResult, idx |-> idx,
     issue |-> issue, pr |-> pr, commitSHA |-> commitSHA, statuses |-> statuses,
     prChecks |-> prChecks, prStatusMap |-> prStatusMap,
     requiredContexts |-> requiredContexts, multiErr |-> multiErr,
     result |-> result, calls |-> calls]

Switch ==
    /\ \/ pc = "Merge" /\ other.pc # "done"
       \/ pc = "done" /\ other.pc = "Merge"
    /\ other' = Locals
    /\ event' = other.event
    /\ pc' = other.pc
    /\ searchResult' = other.searchResult
    /\ idx' = other.idx
    /\ issue' = other.issue
    /\ pr' = other.pr
    /\ commitSHA' = other.commitSHA
    /\ statuses' = other.statuses
    /\ prChecks' = other.prChecks
    /\ prStatusMap' = other.prStatusMap
    /\ requiredContexts' = other.requiredContexts
    /\ multiErr' = other.multiErr
    /\ result' = other.result
    /\ calls' = other.calls
    /\ UNCHANGED <<config, merged>>

\* HandleEvent for a pull-request or review event of a repository that has
\* the approved label configured
HandleEventOfPullRequest ==
    /\ HandleEvent
    /\ config' = "approved"
    /\ event'.kind \in {"pull_request", "pull_request_review"}

NextConcurrent ==
    \/ HandleEventOfPullRequest
    \/ IssuesGet
    \/ GetCombinedStatus
    \/ ListCheckRunsForRef
    \/ ListRequiredStatusChecksContexts
    \/ Decide
    \/ Merge
    \/ Switch

SpecConcurrent == Init /\ [][NextConcurrent]_vars

----------------------------------------------------------------------------
(* Vocabulary of the properties *)

Last(s) == s[Len(s)]

\* this step makes the forge call op
Calls(op) == Len(calls') = Len(calls) + 1 /\ Last(calls').op = op

MergePRStages == {"GetCombinedStatus", "ListCheckRunsForRef",
                  "ListRequiredStatusChecksContexts", "decide", "Merge"}

\* the rule "all required, else all known" on a status map S and a list R
RuleNoKnownFailure(S) == \A c \in DOMAIN S : S[c]
RuleAllRequired(S, R) == \A i \in 1..Len(R) : R[i] \in DOMAIN S /\ S[R[i]]
RuleEligible(S, R) == IF R = <<>> THEN RuleNoKnownFailure(S) ELSE RuleAllRequired(S, R)

RangeOf(s) == {s[i] : i \in 1..Len(s)}

\* the calls made for pull request n, in order
RECURSIVE CallsFor(_, _)
CallsFor(cs, n) ==
    IF cs = <<>> THEN <<>>
    ELSE IF Head(cs).num = n THEN <<Head(cs)>> \o CallsFor(Tail(cs), n)
    ELSE CallsFor(Tail(cs), n)

\* the failed calls of a log, as the errors they raise (operation and pull request)
RECURSIVE Failures(_)
Failures(cs) ==
    IF cs = <<>> THEN <<>>
    ELSE IF Head(cs).out = "error"
         THEN <<[op |-> Head(cs).op, num |-> Head(cs).num]>> \o Failures(Tail(cs))
    ELSE Failures(Tail(cs))

ErrorsOf(errs) == [i \in 1..Len(errs) |-> [op |-> errs[i].op, num |-> errs[i].num]]

----------------------------------------------------------------------------
(* C1: the merge operation is called for a pull request only if the      *)
(* issue's labels contain the configured approved label and the status   *)
(* map and the required contexts fetched for it in this invocation (the  *)
(* three lookups are the last three calls before the merge) make it      *)
(* eligible.  The merge call is issued from the states with pc = "Merge" *)
(* and from no other.                                                    *)
MergeFollowsLookups(k) ==
    /\ k >= 4
    /\ calls[k - 3].op = "GetCombinedStatus" /\ calls[k - 3].out = "ok"
    /\ calls[k - 2].op = "ListCheckRunsForRef" /\ calls[k - 2].out = "ok"
    /\ calls[k - 1].op = "ListRequiredStatusChecksContexts"
    /\ calls[k - 1].out \in {"ok", "notfound"}
    /\ \A d \in 1..3 : calls[k - d].num = calls[k].num

C1_MergeOnlyIfApprovedAndEligible ==
    /\ pc = "Merge" =>
         /\ config # "" /\ config \in issue.labels
         /\ RuleEligible(prStatusMap, requiredContexts)
         /\ Last(calls).op = "ListRequiredStatusChecksContexts"
         /\ Last(calls).num = issue.number
    /\ \A k \in 1..Len(calls) : calls[k].op = "Merge" =>
         /\ MergeFollowsLookups(k)
         /\ event.kind = "status" =>
                /\ config \in searchResult[calls[k].num].labels
                /\ searchResult[calls[k].num].links

C1_Witness ==
    /\ calls # <<>> /\ Last(calls).op = "Merge" /\ Last(calls).out = "ok"
    /\ event.kind = "status"
    /\ Len(calls) >= 5 /\ calls[Len(calls) - 1].out = "ok"

(* C2: with a non-empty list R of required contexts, the merge call is   *)
(* reached iff every name of R is in the status map and true there;      *)
(* entries of the map for other names do not matter.                     *)
C2_RequiredContextsDecide ==
    [][(pc = "decide" /\ requiredContexts # <<>>) =>
         /\ (pc' = "Merge") <=> RuleAllRequired(prStatusMap, requiredContexts)
         /\ (\E i \in 1..Len(requiredContexts) :
                requiredContexts[i] \notin DOMAIN prStatusMap) => pc' # "Merge"]_vars

C2_Witness ==
    /\ pc = "Merge"
    /\ requiredContexts # <<>>
    /\ \E c \in DOMAIN prStatusMap : c \notin RangeOf(requiredContexts) /\ ~prStatusMap[c]

(* C3: with no required contexts, a false entry of the status map stops  *)
(* the merge; an empty map, or a map of true entries only, reaches the   *)
(* merge call.                                                           *)
C3_NoRequiredContexts ==
    [][(pc = "decide" /\ requiredContexts = <<>>) =>
         /\ (\E c \in DOMAIN prStatusMap : ~prStatusMap[c]) => pc' # "Merge"
         /\ (DOMAIN prStatusMap = {}) => pc' = "Merge"
         /\ (\A c \in DOMAIN prStatusMap : prStatusMap[c]) => pc' = "Merge"]_vars

C3_Witness ==
    /\ pc = "Merge"
    /\ requiredContexts = <<>>
    /\ DOMAIN prStatusMap = {}
    /\ Last(calls).out = "notfound"

(* C4: after both lookups, the entry of every context that a check run   *)
(* reports is the result of the (last) check run of that name, whatever  *)
(* a legacy status of that name said; a legacy status decides the entry  *)
(* only of a context no check run reports.                               *)
ReportedByStatus(c) == \E i \in 1..Len(statuses) : statuses[i].context = c
ReportedByCheck(c) == \E i \in 1..Len(prChecks) : prChecks[i].name = c
LastCheckOf(c) ==
    prChecks[CHOOSE i \in 1..Len(prChecks) :
                 /\ prChecks[i].name = c
                 /\ \A j \in (i + 1)..Len(prChecks) : prChecks[j].name # c]
StatusOf(c) == statuses[CHOOSE i \in 1..Len(statuses) : statuses[i].context = c]
ConclusionIsSuccess(check) == check.conclusion = <<checkEventSuccessConclusion>>

C4_CheckRunsOverrideStatuses ==
    pc = "ListRequiredStatusChecksContexts" =>
        /\ DOMAIN prStatusMap = {c \in Names : ReportedByStatus(c) \/ ReportedByCheck(c)}
        /\ \A c \in Names :
            /\ ReportedByCheck(c) => prStatusMap[c] = ConclusionIsSuccess(LastCheckOf(c))
            /\ (ReportedByStatus(c) /\ ~ReportedByCheck(c)) =>
                   prStatusMap[c] = (StatusOf(c).state = statusEventSuccessState)

C4_Witness ==
    /\ pc = "ListRequiredStatusChecksContexts"
    /\ \E c \in Names :
        /\ ReportedByStatus(c) /\ ReportedByCheck(c)
        /\ StatusOf(c).state = statusEventSuccessState
        /\ ~prStatusMap[c]

(* C5: with an empty approved-label name, HandleEvent returns nil for    *)
(* every event and makes no forge call.                                  *)
C5_DisabledIsNoOp ==
    (pc # "idle" /\ config = "") =>
        pc = "done" /\ result = <<>> /\ calls = <<>> /\ merged = {}

C5_Witness ==
    /\ pc = "done" /\ config = ""
    /\ event.kind = "pull_request" /\ event.trigger = labeledEvent

(* C6: an event whose trigger string is not the expected one, compared   *)
(* without regard to letter case, makes HandleEvent return nil with no   *)
(* forge call; a trigger string that differs from the expected one in    *)
(* letter case only passes the gate (the first forge call follows).      *)
LetterPairs == {<<UpperLetters[k], LowerLetters[k]>> : k \in 1..Len(UpperLetters)}
SameLetter(a, b) == a = b \/ <<a, b>> \in LetterPairs \/ <<b, a>> \in LetterPairs
EqualFold(s, t) == Len(s) = Len(t) /\ \A i \in 1..Len(s) : SameLetter(s[i], t[i])
HandledKinds == {"pull_request", "pull_request_review", "status"}
Expected ==
    [kind \in HandledKinds |->
        CASE kind = "pull_request" -> labeledEvent
          [] kind = "pull_request_review" -> approvedReviewState
          [] kind = "status" -> statusEventSuccessState]
\* the trigger strings that are the expected one up to letter case
Matching == [kind \in HandledKinds |-> {t \in Triggers : EqualFold(t, Expected[kind])}]

C6_TriggerGate ==
    (pc # "idle" /\ event.kind \in HandledKinds) =>
        /\ event.trigger \notin Matching[event.kind] =>
               pc = "done" /\ result = <<>> /\ calls = <<>>
        /\ (config # "" /\ event.trigger \in Matching[event.kind]) =>
               pc \in {"Issues.Get", "Search.Issues"} \/ calls # <<>>

C6_Witness ==
    /\ calls # <<>>
    /\ event.kind = "status"
    /\ event.trigger # statusEventSuccessState

(* C7 (as stated): for a commit-status event with state "success" and   *)
(* SHA x, a candidate pull request whose head SHA is not x is skipped:   *)
(* no status, check-run or required-context lookup and no merge is made  *)
(* for it (so no error can come of it).                                  *)
HeadLookups == {"GetCombinedStatus", "ListCheckRunsForRef", "Merge"}

OnlyHeadEvaluated ==
    /\ pc \in MergePRStages => pr.head = event.sha
    /\ \A k \in 1..Len(calls) : calls[k].op \in HeadLookups => calls[k].arg = event.sha
    /\ \A k \in 1..Len(multiErr) : multiErr[k].op # "PullRequests.Get" =>
           \E c \in RangeOf(CallsFor(calls, multiErr[k].num)) :
               c.op = "GetCombinedStatus" /\ c.arg = event.sha

C7_StaleCommitSkipped_AnySHA == event.kind = "status" => OnlyHeadEvaluated

(* C7 (amended): the same, for a commit-status event whose SHA x is not  *)
(* the empty string; with an empty SHA mergePR makes no head comparison. *)
C7_StaleCommitSkipped == (event.kind = "status" /\ event.sha # "") => OnlyHeadEvaluated

\* an approved candidate was fetched, no lookup followed, although the
\* next candidate was evaluated and merged
C7_Witness ==
    /\ pc = "done" /\ event.kind = "status" /\ event.sha # "" /\ result = <<>>
    /\ Len(searchResult) = 2
    /\ searchResult[1].links /\ config \in searchResult[1].labels
    /\ Len(CallsFor(calls, 1)) = 1 /\ CallsFor(calls, 1)[1].out = "ok"
    /\ 2 \in merged

(* C8 (as stated): every merge call pins the SHA to the head SHA of the  *)
(* pull request it evaluated, the same SHA the combined-status and       *)
(* check-run lookups were made with; for a commit-status event it is     *)
(* the SHA of the event.                                                 *)
MergePinsHead ==
    /\ pc \in MergePRStages => commitSHA = pr.head
    /\ pc = "ListCheckRunsForRef" =>
           Last(calls).op = "GetCombinedStatus" /\ Last(calls).arg = pr.head
    /\ pc = "ListRequiredStatusChecksContexts" =>
           Last(calls).op = "ListCheckRunsForRef" /\ Last(calls).arg = pr.head
    /\ \A k \in 1..Len(calls) : calls[k].op = "Merge" =>
           /\ MergeFollowsLookups(k)
           /\ calls[k - 3].arg = calls[k].arg
           /\ calls[k - 2].arg = calls[k].arg
    /\ event.kind \in {"pull_request", "pull_request_review"} =>
           \A k \in 1..Len(calls) : calls[k].op = "Merge" => calls[k].arg = event.pr.head

C8_MergePinsHeadSHA_AnySHA ==
    /\ MergePinsHead
    /\ event.kind = "status" =>
           \A k \in 1..Len(calls) : calls[k].op = "Merge" => calls[k].arg = event.sha

(* C8 (amended): the same, the SHA of a merge call being the SHA of the  *)
(* commit-status event when that SHA is not the empty string.            *)
C8_MergePinsHeadSHA ==
    /\ MergePinsHead
    /\ (event.kind = "status" /\ event.sha # "") =>
           \A k \in 1..Len(calls) : calls[k].op = "Merge" => calls[k].arg = event.sha

C8_Witness ==
    /\ event.kind = "pull_request_review"
    /\ calls # <<>> /\ Last(calls).op = "Merge"
    /\ Last(calls).arg = "b"

(* C9: when a commit-status event passed the gate and its search         *)
(* succeeded, every pull request found has been attempted when           *)
(* HandleEvent returns, whatever failed before it; the returned error    *)
(* combines exactly the failures of the pull requests that failed (nil   *)
(* iff none failed), and a pull request that merged stays merged and     *)
(* adds nothing to the error.                                            *)
C9_BatchPartialFailure ==
    (pc = "done" /\ event.kind = "status" /\ calls # <<>> /\ calls[1].out = "ok") =>
        /\ \A i \in 1..Len(searchResult) : searchResult[i].links =>
               \E k \in 1..Len(calls) :
                   calls[k].op = "PullRequests.Get" /\ calls[k].num = i
        /\ ErrorsOf(result) = Failures(calls)
        /\ (result = <<>>) <=> (\A k \in 1..Len(calls) : calls[k].out # "error")
        /\ \A k \in 1..Len(calls) : (calls[k].op = "Merge" /\ calls[k].out = "ok") =>
               /\ calls[k].num \in merged
               /\ \A e \in 1..Len(result) : result[e].num # calls[k].num

C9_Witness ==
    /\ pc = "done" /\ event.kind = "status"
    /\ Len(searchResult) = 2
    /\ 2 \in merged /\ 1 \notin merged
    /\ Len(result) = 1 /\ result[1].op = "Merge" /\ result[1].num = 1

(* C10: a "not found" answer to the required-contexts lookup is no       *)
(* error: the pull request goes on to the decision with an empty list    *)
(* of required contexts; any other error is propagated (returned, or     *)
(* added to the aggregate of a commit-status event) and no merge call    *)
(* is made for that pull request.                                        *)
RequiredLookupError(n) ==
    <<[op |-> "ListRequiredStatusChecksContexts", num |-> n]>>

C10_ProtectionAbsentIsNoError ==
    /\ [][Calls("ListRequiredStatusChecksContexts") =>
            /\ Last(calls').out = "notfound" =>
                   /\ pc' = "decide"
                   /\ requiredContexts' = <<>>
                   /\ multiErr' = multiErr /\ result' = result
            /\ Last(calls').out = "error" =>
                   /\ pc' \notin {"decide", "Merge"}
                   /\ IF event.kind = "status"
                      THEN ErrorsOf(multiErr') =
                               ErrorsOf(multiErr) \o RequiredLookupError(issue.number)
                      ELSE pc' = "done" /\
                           ErrorsOf(result') = RequiredLookupError(issue.number)]_vars
    /\ [](\A k \in 1..Len(calls) :
            (calls[k].op = "ListRequiredStatusChecksContexts" /\ calls[k].out = "error") =>
                \A m \in 1..Len(calls) :
                    calls[m].op = "Merge" => calls[m].num # calls[k].num)

C10_Witness ==
    /\ pc = "done" /\ result = <<>>
    /\ \E k \in 1..(Len(calls) - 1) :
        /\ calls[k].out = "notfound"
        /\ calls[k + 1].op = "Merge" /\ calls[k + 1].out = "ok"
        /\ calls[k + 1].num \in merged

----------------------------------------------------------------------------
\* the error the invocation holds: what HandleEvent returned, or the
\* aggregate of handleStatusEvent while its loop runs
Reported == IF pc = "done" THEN result ELSE multiErr

\* the lookups other than the one of the required contexts
WrappedLookups == {"Issues.Get", "Search.Issues", "PullRequests.Get",
                   "GetCombinedStatus", "ListCheckRunsForRef"}

(* C11: every failed lookup other than the one of the required contexts  *)
(* (issue lookup, search, pull-request fetch, combined-status lookup,    *)
(* check-run lookup) is reported to the caller wrapped with a message    *)
(* naming the operation, and no merge call is made for a pull request    *)
(* one of whose lookups failed.                                          *)
C11_LookupFailuresWrapped ==
    \A k \in 1..Len(calls) :
        (calls[k].op \in WrappedLookups /\ calls[k].out = "error") =>
            /\ \E e \in 1..Len(Reported) :
                   /\ Reported[e].op = calls[k].op
                   /\ Reported[e].num = calls[k].num
                   /\ Reported[e].msg # ""
            /\ \A m \in 1..Len(calls) :
                   calls[m].op = "Merge" => calls[m].num # calls[k].num

\* the processing of pull request n is over
Finished(n) == pc = "done" \/ (event.kind = "status" /\ n < idx)

\* the calls for pull request n ended without a failure and without a merge
\* call: mergePR returned at the label test, at the stale-commit test or at
\* the test of the statuses
Skipped(n) ==
    LET cs == CallsFor(calls, n)
    IN  /\ cs # <<>>
        /\ Finished(n)
        /\ Last(cs).op # "Merge"
        /\ \A k \in 1..Len(cs) : cs[k].out # "error"

(* C12: a pull request skipped at a gate (label absent, stale commit,    *)
(* statuses not all passed) adds no error and gets no merge call; the    *)
(* error HandleEvent holds or returns consists of exactly the failed     *)
(* forge calls, so it is non-nil only if some forge call failed.         *)
C12_GatingSkipsAreNoErrors ==
    /\ ErrorsOf(Reported) = Failures(calls)
    /\ \A n \in 1..MaxIssues : Skipped(n) =>
           /\ \A e \in 1..Len(Reported) : Reported[e].num # n
           /\ n \notin merged
           /\ \A k \in 1..Len(calls) : calls[k].op = "Merge" => calls[k].num # n

C12_Witness ==
    /\ pc = "done" /\ result = <<>> /\ event.kind = "status"
    /\ Len(searchResult) = 2
    /\ searchResult[1].links /\ config \notin searchResult[1].labels
    /\ Skipped(1) /\ Len(CallsFor(calls, 1)) = 1
    /\ Skipped(2) /\ Last(CallsFor(calls, 2)).op = "ListRequiredStatusChecksContexts"

(* C13: a failed merge call is reported wrapped with its message: for a   *)
(* pull-request or review event HandleEvent returns it as its error; for *)
(* a commit-status event it joins the aggregate, the loop moves on, and  *)
(* every later pull request of the search result is still fetched.       *)
C13_MergeFailurePropagated ==
    \A k \in 1..Len(calls) : (calls[k].op = "Merge" /\ calls[k].out = "error") =>
        /\ \E e \in 1..Len(Reported) :
               Reported[e] = Err("Merge", calls[k].num, "failed to merge pull request")
        /\ calls[k].num \notin merged
        /\ IF event.kind = "status"
           THEN /\ idx > calls[k].num
                /\ pc = "done" =>
                       \A i \in (calls[k].num + 1)..Len(searchResult) :
                           searchResult[i].links =>
                               \E m \in (k + 1)..Len(calls) :
                                   calls[m].op = "PullRequests.Get" /\ calls[m].num = i
           ELSE /\ pc = "done"
                /\ result = <<Err("Merge", calls[k].num, "failed to merge pull request")>>

C13_Witness ==
    /\ pc = "done" /\ event.kind = "status"
    /\ \E k \in 1..Len(calls) :
        /\ calls[k].op = "Merge" /\ calls[k].out = "error" /\ calls[k].num = 1
        /\ \E m \in (k + 1)..Len(calls) : calls[m].op = "Merge" /\ calls[m].num = 2
    /\ result # <<>> /\ result[1].msg = "failed to merge pull request"

(* C16: for an event object that is none of the three handled variants   *)
(* HandleEvent returns nil without a forge call, whether or not the      *)
(* approved label is configured.                                         *)
C16_UnhandledEventIsNoOp ==
    (pc # "idle" /\ event.kind \notin HandledKinds) =>
        /\ pc = "done"
        /\ result = <<>>
        /\ calls = <<>>
        /\ merged = {}

C16_Witness ==
    /\ pc = "done"
    /\ event.kind = "other"
    /\ config = "approved"
    /\ calls = <<>>

(* C17: every merge call directly follows, in this order, the fetch of   *)
(* the pull request, a successful combined-status lookup and a           *)
(* successful check-run lookup for the commit the merge is pinned to,    *)
(* and a required-contexts lookup (answered, or "not found") for its     *)
(* base branch, all made in this invocation for this pull request; the   *)
(* evaluation of a pull request starts from an empty status map and an   *)
(* empty list of required contexts.                                      *)
C17_MergeAfterFreshLookups ==
    /\ pc = "idle" => calls = <<>>
    /\ pc \in {"Issues.Get", "Search.Issues", "PullRequests.Get", "GetCombinedStatus"} =>
           prStatusMap = EmptyMap /\ requiredContexts = <<>>
    /\ pc = "Merge" =>
           /\ Len(calls) >= 4
           /\ pr.number = issue.number /\ commitSHA = pr.head
           /\ calls[Len(calls) - 2] = Call("GetCombinedStatus", pr.number, pr.head, "ok")
           /\ calls[Len(calls) - 1] = Call("ListCheckRunsForRef", pr.number, pr.head, "ok")
           /\ Last(calls).op = "ListRequiredStatusChecksContexts"
           /\ Last(calls).num = pr.number /\ Last(calls).arg = pr.base
           /\ Last(calls).out \in {"ok", "notfound"}
    /\ \A k \in 1..Len(calls) : calls[k].op = "Merge" =>
           /\ k >= 5
           /\ calls[k - 4].op \in {"Issues.Get", "PullRequests.Get"}
           /\ calls[k - 4].num = calls[k].num /\ calls[k - 4].out = "ok"
           /\ calls[k - 3] = Call("GetCombinedStatus", calls[k].num, calls[k].arg, "ok")
           /\ calls[k - 2] = Call("ListCheckRunsForRef", calls[k].num, calls[k].arg, "ok")
           /\ calls[k - 1].op = "ListRequiredStatusChecksContexts"
           /\ calls[k - 1].num = calls[k].num /\ calls[k - 1].arg \in Branches
           /\ calls[k - 1].out \in {"ok", "notfound"}

C17_Witness ==
    /\ pc = "Merge" /\ event.kind = "status"
    /\ issue.number = 2 /\ 1 \in merged
    /\ Last(calls).out = "ok"

\* the positions of the merge calls in the log
MergeCalls == {k \in 1..Len(calls) : calls[k].op = "Merge"}

(* C18: one invocation makes at most one merge call per pull request: at *)
(* most one in all for a pull-request or review event, and for a         *)
(* commit-status event at most one per search result that carries        *)
(* PullRequestLinks; a search result without them gets no forge call     *)
(* at all.                                                               *)
C18_AtMostOneMergePerPullRequest ==
    /\ \A k, m \in MergeCalls : calls[k].num = calls[m].num => k = m
    /\ event.kind \in {"pull_request", "pull_request_review"} =>
           /\ Cardinality(MergeCalls) <= 1
           /\ \A k \in MergeCalls : calls[k].num = event.pr.number
    /\ event.kind = "status" =>
           /\ Cardinality(MergeCalls) <=
                  Cardinality({i \in 1..Len(searchResult) : searchResult[i].links})
           /\ \A k \in MergeCalls :
                  /\ calls[k].num \in 1..Len(searchResult)
                  /\ searchResult[calls[k].num].links
           /\ \A i \in 1..Len(searchResult) : ~searchResult[i].links =>
                  /\ CallsFor(calls, i) = <<>>
                  /\ i \notin merged

C18_Witness ==
    /\ pc = "done" /\ event.kind = "status"
    /\ Len(searchResult) = 2
    /\ ~searchResult[1].links
    /\ merged = {2}
    /\ Cardinality(MergeCalls) = 1

(* C20: when the search for open pull requests fails, HandleEvent        *)
(* returns that error, wrapped, at once: the search is the only forge    *)
(* call of the invocation, no issue is taken from its answer, and no     *)
(* pull request is fetched, evaluated or merged.                         *)
C20_SearchFailureReturnsAtOnce ==
    \A k \in 1..Len(calls) : (calls[k].op = "Search.Issues" /\ calls[k].out = "error") =>
        /\ pc = "done"
        /\ calls = <<Call("Search.Issues", 0, event.sha, "error")>>
        /\ result = <<Err("Search.Issues", 0, "failed to search for open issues")>>
        /\ searchResult = <<>> /\ idx = 0 /\ issue = NoIssue /\ pr = NoPR
        /\ merged = {}

C20_Witness ==
    /\ pc = "done" /\ event.kind = "status" /\ event.sha = "a"
    /\ Len(calls) = 1 /\ calls[1].op = "Search.Issues" /\ calls[1].out = "error"
    /\ Len(result) = 1

(* C19: a check run without a conclusion is recorded in the status map   *)
(* as not successful, whatever a legacy status of its name reports; it   *)
(* keeps the merge call from being reached when no context is required   *)
(* or its name is required, and when contexts are required and its name  *)
(* is not among them the merge call is reached iff the required ones     *)
(* all succeeded.                                                        *)
C19_PendingCheckRunBlocks ==
    pc \in {"evaluate", "Merge", "return"} =>
        \A i \in 1..Len(prChecks) : prChecks[i].conclusion = <<>> =>
            LET c == prChecks[i].name
            IN  /\ ~prStatusMap[c]
                /\ (requiredContexts = <<>> \/ c \in RangeOf(requiredContexts)) =>
                       pc # "Merge"
                /\ (requiredContexts # <<>> /\ c \notin RangeOf(requiredContexts)
                        /\ pc # "evaluate") =>
                       (pc = "Merge" <=> RuleAllRequired(prStatusMap, requiredContexts))

\* the terminal states of the processing of pull request n, read off what
\* the invocation leaves behind
TerminalMerged(n) == n \in merged
TerminalFailed(n) == \E e \in 1..Len(result) : result[e].num = n
TerminalSkip(n) ==
    LET cs == CallsFor(calls, n)
    IN  /\ cs # <<>>
        /\ Last(cs).op = "ListRequiredStatusChecksContexts"
        /\ Last(cs).out \in {"ok", "notfound"}
TerminalNoOp(n) ==
    LET cs == CallsFor(calls, n)
    IN  \/ cs = <<>>
        \/ Last(cs).op \in {"Issues.Get", "PullRequests.Get"} /\ Last(cs).out = "ok"

TerminalStatesOf(n) ==
    {t \in {"no-op", "skip", "merged", "failed"} :
        \/ t = "no-op" /\ TerminalNoOp(n)
        \/ t = "skip" /\ TerminalSkip(n)
        \/ t = "merged" /\ TerminalMerged(n)
        \/ t = "failed" /\ TerminalFailed(n)}

\* the calls of the path label gate, aggregation, resolution, merge
MergedPath(cs) ==
    /\ Len(cs) = 5
    /\ cs[1].op \in {"Issues.Get", "PullRequests.Get"} /\ cs[1].out = "ok"
    /\ cs[2].op = "GetCombinedStatus" /\ cs[2].out = "ok"
    /\ cs[3].op = "ListCheckRunsForRef" /\ cs[3].out = "ok"
    /\ cs[4].op = "ListRequiredStatusChecksContexts" /\ cs[4].out \in {"ok", "notfound"}
    /\ cs[5].op = "Merge" /\ cs[5].out = "ok"

\* the steps mergePR can still take from each of its positions
StepsLeftAt ==
    [p \in {"Issues.Get", "PullRequests.Get", "GetCombinedStatus", "ListCheckRunsForRef",
            "ListRequiredStatusChecksContexts", "decide", "Merge"} |->
        CASE p \in {"Issues.Get", "PullRequests.Get"} -> 6
          [] p = "GetCombinedStatus" -> 5
          [] p = "ListCheckRunsForRef" -> 4
          [] p = "ListRequiredStatusChecksContexts" -> 3
          [] p = "decide" -> 2
          [] p = "Merge" -> 1]
\* the steps an invocation can still take: at most StepsPerPR for each pull
\* request it has not finished, plus the search and the dispatch
StepsPerPR == StepsLeftAt["PullRequests.Get"]
StepsLeft ==
    CASE pc = "done" -> 0
      [] pc = "idle" -> StepsPerPR * MaxIssues + 2
      [] pc = "Search.Issues" -> StepsPerPR * MaxIssues + 1
      [] OTHER -> StepsPerPR * (Len(searchResult) - idx) + StepsLeftAt[pc]

(* C14: an invocation that has not returned can always take a step (a    *)
(* forge call that returns, or the decision), and every step lowers the  *)
(* number of steps left, so HandleEvent returns when every forge call    *)
(* returns; at its return each pull request is in exactly one of the     *)
(* terminal states no-op, skip, merged, failed; and a pull request is    *)
(* merged only by the path fetch, combined statuses, check runs,         *)
(* required contexts, merge, each step answered.                         *)
C14_TerminatesInOneTerminalState ==
    /\ [][StepsLeft' < StepsLeft]_vars
    /\ [](StepsLeft >= 0 /\ (pc # "done" => ENABLED Next))
    /\ [](pc = "done" => \A n \in 1..MaxIssues : Cardinality(TerminalStatesOf(n)) = 1)
    /\ [](\A n \in merged : MergedPath(CallsFor(calls, n)))

C14_Witness ==
    /\ pc = "done" /\ event.kind = "status" /\ Len(searchResult) = 2
    /\ TerminalStatesOf(1) = {"failed"}
    /\ TerminalStatesOf(2) = {"merged"}
    /\ MergedPath(CallsFor(calls, 2))

\* the merge calls an invocation with call log cs has made for pull request n
MergeCallsFor(cs, n) == {k \in 1..Len(cs) : cs[k].op = "Merge" /\ cs[k].num = n}

(* C15: nothing in the engine orders the merge calls of two invocations  *)
(* for one pull request: an invocation that has reached its merge call   *)
(* can make it whatever the other invocation has done, the merge of the  *)
(* same pull request included; each invocation makes at most one merge   *)
(* call for the pull request, and both can make theirs.                  *)
C15_MergeNotSerialized ==
    /\ pc = "Merge" => ENABLED Merge
    /\ \A n \in 1..MaxIssues :
           /\ Cardinality(MergeCallsFor(calls, n)) <= 1
           /\ Cardinality(MergeCallsFor(other.calls, n)) <= 1

C15_Witness ==
    /\ pc = "done" /\ other.pc = "done"
    /\ event.pr.number = other.event.pr.number
    /\ MergeCallsFor(calls, event.pr.number) # {}
    /\ MergeCallsFor(other.calls, event.pr.number) # {}
    /\ event.pr.number \in merged

====
